---- MODULE Spec2Model ----
(***************************************************************************)
(* Package ftracker: distance, mean speed and spent calories of a training *)
(* session, and the report ShowTrainingInfo formats from them.             *)
(*                                                                         *)
(* Every number the package computes is a Go float64.  The model keeps     *)
(* float64 values exactly: a value is a record                             *)
(*     [cls |-> "num", sgn |-> 0 or 1, man |-> natural, exp |-> integer]   *)
(* standing for (-1)^sgn * man * 2^exp with man odd (or man = 0, exp = 0), *)
(* or cls is "inf" or "nan".  Each arithmetic operation computes the exact *)
(* result and rounds it once to binary64 (53 bits, round to nearest, ties  *)
(* to even, gradual underflow, overflow to infinity), as the hardware      *)
(* does.  Naturals wider than TLC's integers are sequences of limbs, least *)
(* significant first, without leading zero limbs.                          *)
(***************************************************************************)
EXTENDS Integers, Sequences, FiniteSets, TLC

(***************************************************************************)
(* Naturals of any width.                                                  *)
(***************************************************************************)
LimbBits == 15
Base == 2^LimbBits

Max(a, b) == IF a >= b THEN a ELSE b
Min(a, b) == IF a <= b THEN a ELSE b

RECURSIVE BNorm(_)
BNorm(a) ==
    IF a = <<>> THEN <<>>
    ELSE IF a[Len(a)] = 0 THEN BNorm(SubSeq(a, 1, Len(a) - 1))
    ELSE a

RECURSIVE BFromInt(_)
BFromInt(n) == IF n = 0 THEN <<>> ELSE <<n % Base>> \o BFromInt(n \div Base)

BLimb(a, i) == IF i >= 1 /\ i <= Len(a) THEN a[i] ELSE 0

RECURSIVE BAddC(_, _, _, _)
BAddC(a, b, i, carry) ==
    IF i > Len(a) /\ i > Len(b)
    THEN IF carry = 0 THEN <<>> ELSE <<carry>>
    ELSE LET t == BLimb(a, i) + BLimb(b, i) + carry
         IN  <<t % Base>> \o BAddC(a, b, i + 1, t \div Base)

BAdd(a, b) == BAddC(a, b, 1, 0)

\* a - b for a >= b
RECURSIVE BSubC(_, _, _, _)
BSubC(a, b, i, borrow) ==
    IF i > Len(a) THEN <<>>
    ELSE LET t == BLimb(a, i) - BLimb(b, i) - borrow
         IN  IF t < 0 THEN <<t + Base>> \o BSubC(a, b, i + 1, 1)
             ELSE <<t>> \o BSubC(a, b, i + 1, 0)

BSub(a, b) == BNorm(BSubC(a, b, 1, 0))

RECURSIVE BCmpFrom(_, _, _)
BCmpFrom(a, b, i) ==
    IF i = 0 THEN 0
    ELSE IF a[i] < b[i] THEN 0 - 1
    ELSE IF a[i] > b[i] THEN 1
    ELSE BCmpFrom(a, b, i - 1)

\* -1, 0 or 1 as a < b, a = b, a > b
BCmp(a, b) ==
    IF Len(a) < Len(b) THEN 0 - 1
    ELSE IF Len(a) > Len(b) THEN 1
    ELSE BCmpFrom(a, b, Len(a))

RECURSIVE BMulSmallC(_, _, _, _)
BMulSmallC(a, k, i, carry) ==
    IF i > Len(a)
    THEN IF carry = 0 THEN <<>> ELSE <<carry>>
    ELSE LET t == a[i] * k + carry
         IN  <<t % Base>> \o BMulSmallC(a, k, i + 1, t \div Base)

\* a * k for a limb k
BMulSmall(a, k) == IF k = 0 THEN <<>> ELSE BMulSmallC(a, k, 1, 0)

BShlLimbs(a, n) == IF a = <<>> THEN <<>> ELSE [i \in 1..n |-> 0] \o a

RECURSIVE BMulFrom(_, _, _)
BMulFrom(a, b, j) ==
    IF j > Len(b) THEN <<>>
    ELSE BAdd(BShlLimbs(BMulSmall(a, b[j]), j - 1), BMulFrom(a, b, j + 1))

BMul(a, b) == IF a = <<>> \/ b = <<>> THEN <<>> ELSE BMulFrom(a, b, 1)

\* a * 2^k
BShl(a, k) ==
    IF a = <<>> THEN <<>>
    ELSE LET s == k % LimbBits
             p == 2^s
             q == 2^(LimbBits - s)
             n == Len(a)
             w == [i \in 1..(n + 1) |->
                     ((BLimb(a, i) % q) * p) + (BLimb(a, i - 1) \div q)]
         IN  BShlLimbs(BNorm(w), k \div LimbBits)

\* a \div 2^k
BShr(a, k) ==
    LET d == k \div LimbBits
        s == k % LimbBits
        p == 2^s
        q == 2^(LimbBits - s)
        n == Len(a) - d
    IN  IF n <= 0 THEN <<>>
        ELSE BNorm([i \in 1..n |->
                 (BLimb(a, i + d) \div p) + ((BLimb(a, i + d + 1) % p) * q)])

\* bit i of a, bit 0 the least significant
BBit(a, i) == (BLimb(a, (i \div LimbBits) + 1) \div 2^(i % LimbBits)) % 2

\* whether the k low bits of a are all 0
BLowZero(a, k) ==
    LET d == k \div LimbBits
        s == k % LimbBits
    IN  /\ \A i \in 1..Min(d, Len(a)) : a[i] = 0
        /\ BLimb(a, d + 1) % 2^s = 0

RECURSIVE IntBitLen(_)
IntBitLen(n) == IF n = 0 THEN 0 ELSE 1 + IntBitLen(n \div 2)

BBitLen(a) ==
    IF a = <<>> THEN 0 ELSE (Len(a) - 1) * LimbBits + IntBitLen(a[Len(a)])

RECURSIVE IntTrailingZeros(_)
IntTrailingZeros(n) == IF n % 2 = 1 THEN 0 ELSE 1 + IntTrailingZeros(n \div 2)

RECURSIVE BTrailingZerosFrom(_, _)
BTrailingZerosFrom(a, i) ==
    IF a[i] = 0 THEN LimbBits + BTrailingZerosFrom(a, i + 1)
    ELSE IntTrailingZeros(a[i])

\* the number of low zero bits of a /= 0
BTrailingZeros(a) == BTrailingZerosFrom(a, 1)

\* <<quotient, remainder>> of a by a limb d, from the top limb down
RECURSIVE BDivSmallFrom(_, _, _, _)
BDivSmallFrom(a, d, i, rem) ==
    IF i = 0 THEN <<<<>>, rem>>
    ELSE LET t == rem * Base + a[i]
             r == BDivSmallFrom(a, d, i - 1, t % d)
         IN  <<r[1] \o <<t \div d>>, r[2]>>

BDivSmall(a, d) ==
    LET r == BDivSmallFrom(a, d, Len(a), 0) IN <<BNorm(r[1]), r[2]>>

RECURSIVE BToDigits(_)
BToDigits(a) ==
    IF a = <<>> THEN <<>>
    ELSE LET r == BDivSmall(a, 10) IN BToDigits(r[1]) \o <<r[2]>>

\* Long division of a by d, bits i, i-1, ..., i-cnt+1 of a brought down one at a
\* time onto the remainder: <<quotient so far, remainder>>
RECURSIVE BDivBits(_, _, _, _, _, _)
BDivBits(a, d, i, cnt, rem, quo) ==
    IF cnt = 0 THEN <<quo, rem>>
    ELSE LET r1 == BShl(rem, 1)
             r2 == IF BBit(a, i) = 1 THEN BAdd(r1, <<1>>) ELSE r1
         IN  IF BCmp(r2, d) >= 0
             THEN BDivBits(a, d, i - 1, cnt - 1, BSub(r2, d), BAdd(BShl(quo, 1), <<1>>))
             ELSE BDivBits(a, d, i - 1, cnt - 1, r2, BShl(quo, 1))

\* the same, a limb's worth of bits at a time, down to bit 0
RECURSIVE BDivLongFrom(_, _, _, _, _)
BDivLongFrom(a, d, i, rem, quo) ==
    IF i < 0 THEN <<quo, rem>>
    ELSE LET cnt == Min(i + 1, LimbBits)
             r   == BDivBits(a, d, i, cnt, rem, quo)
         IN  IF Len(r) = 2 THEN BDivLongFrom(a, d, i - cnt, r[2], r[1]) ELSE r

\* <<quotient, remainder>> of a by d /= 0: the top bits of a that are below d
\* start the remainder
BDivMod(a, d) ==
    IF Len(d) = 1
    THEN LET r == BDivSmall(a, d[1]) IN <<r[1], BFromInt(r[2])>>
    ELSE LET n    == BBitLen(a)
             skip == Min(n, BBitLen(d) - 1)
         IN  BDivLongFrom(a, d, n - skip - 1, BShr(a, n - skip), <<>>)

(***************************************************************************)
(* float64.                                                                *)
(***************************************************************************)
Precision == 53
MinExp == -1074
MaxExp == 1024

Zero(s) == [cls |-> "num", sgn |-> s, man |-> <<>>, exp |-> 0]
Inf(s) == [cls |-> "inf", sgn |-> s, man |-> <<>>, exp |-> 0]
NaN == [cls |-> "nan", sgn |-> 0, man |-> <<>>, exp |-> 0]

IsNaN(x) == x.cls = "nan"
IsInf(x) == x.cls = "inf"
IsZero(x) == x.cls = "num" /\ x.man = <<>>
IsFinite(x) == x.cls = "num"
Xor(s, t) == (s + t) % 2

\* the value (-1)^s * m * 2^e, which is a float64, in the form of the model
Canon(s, m, e) ==
    IF m = <<>> THEN Zero(s)
    ELSE LET tz == BTrailingZeros(m)
         IN  [cls |-> "num", sgn |-> s, man |-> BShr(m, tz), exp |-> e + tz]

\* The float64 nearest to (-1)^s * (m + f) * 2^e, where 0 <= f < 1 and f > 0
\* iff sticky: ties to even, gradual underflow, overflow to infinity.
Round(s, m, e, sticky) ==
    IF m = <<>> THEN Zero(s)
    ELSE LET n     == BBitLen(m)
             lsb   == Max(e + n - Precision, MinExp)
             shift == lsb - e
         IN  IF shift <= 0
             THEN IF e + n > MaxExp THEN Inf(s) ELSE Canon(s, m, e)
             ELSE LET q    == BShr(m, shift)
                      half == BBit(m, shift - 1) = 1
                      rest == sticky \/ ~BLowZero(m, shift - 1)
                      up   == half /\ (rest \/ BBit(q, 0) = 1)
                      r    == IF up THEN BAdd(q, <<1>>) ELSE q
                  IN  IF BBitLen(r) + lsb > MaxExp THEN Inf(s)
                      ELSE Canon(s, r, lsb)

\* float64(n) for an int n the model can hold: exact
FromInt(n) == IF n < 0 THEN Canon(1, BFromInt(0 - n), 0) ELSE Canon(0, BFromInt(n), 0)

\* x * y
FMul(x, y) ==
    IF IsNaN(x) \/ IsNaN(y) THEN NaN
    ELSE IF IsInf(x) \/ IsInf(y)
    THEN IF IsZero(x) \/ IsZero(y) THEN NaN ELSE Inf(Xor(x.sgn, y.sgn))
    ELSE Round(Xor(x.sgn, y.sgn), BMul(x.man, y.man), x.exp + y.exp, FALSE)

\* x / y
FDiv(x, y) ==
    LET s == Xor(x.sgn, y.sgn)
    IN  IF IsNaN(x) \/ IsNaN(y) THEN NaN
        ELSE IF IsInf(x) THEN (IF IsInf(y) THEN NaN ELSE Inf(s))
        ELSE IF IsInf(y) THEN Zero(s)
        ELSE IF IsZero(y) THEN (IF IsZero(x) THEN NaN ELSE Inf(s))
        ELSE IF IsZero(x) THEN Zero(s)
        ELSE LET k  == Precision + 3 + BBitLen(y.man) - BBitLen(x.man)
                 qr == BDivMod(BShl(x.man, k), y.man)
             IN  Round(s, qr[1], x.exp - y.exp - k, qr[2] /= <<>>)

\* The exact sum of two finite values given as <<sign, magnitude, exponent>>,
\* in the same form.  A zero sum of nonzero terms is +0.
DAdd(a, b) ==
    IF a[2] = <<>> /\ b[2] = <<>> THEN <<IF a[1] = b[1] THEN a[1] ELSE 0, <<>>, 0>>
    ELSE IF a[2] = <<>> THEN b
    ELSE IF b[2] = <<>> THEN a
    ELSE LET e == Min(a[3], b[3])
             p == BShl(a[2], a[3] - e)
             q == BShl(b[2], b[3] - e)
             c == BCmp(p, q)
         IN  IF a[1] = b[1] THEN <<a[1], BAdd(p, q), e>>
             ELSE IF c > 0 THEN <<a[1], BSub(p, q), e>>
             ELSE IF c < 0 THEN <<b[1], BSub(q, p), e>>
             ELSE <<0, <<>>, 0>>

Parts(x) == <<x.sgn, x.man, x.exp>>

\* The float64 nearest to the sum of two finite values given as <<sign,
\* magnitude, exponent>>.  A term lying wholly below the 56th bit of the other
\* cannot change the rounding except as a sticky bit, and is not aligned.
SumRound(a, b) ==
    IF a[2] = <<>> \/ b[2] = <<>>
    THEN LET r == DAdd(a, b) IN Round(r[1], r[2], r[3], FALSE)
    ELSE LET ta == a[3] + BBitLen(a[2])
             tb == b[3] + BBitLen(b[2])
             hi == IF ta >= tb THEN a ELSE b
             lo == IF ta >= tb THEN b ELSE a
             g  == Max(0, Precision + 3 - BBitLen(hi[2]))
             e  == hi[3] - g
             m  == BShl(hi[2], g)
         IN  IF lo[3] + BBitLen(lo[2]) <= e
             THEN IF hi[1] = lo[1] THEN Round(hi[1], m, e, TRUE)
                  ELSE Round(hi[1], BSub(m, <<1>>), e, TRUE)
             ELSE LET r == DAdd(a, b) IN Round(r[1], r[2], r[3], FALSE)

\* x + y
FAdd(x, y) ==
    IF IsNaN(x) \/ IsNaN(y) THEN NaN
    ELSE IF IsInf(x) THEN (IF IsInf(y) /\ y.sgn /= x.sgn THEN NaN ELSE x)
    ELSE IF IsInf(y) THEN y
    ELSE SumRound(Parts(x), Parts(y))

\* x * y + z rounded once: the fused multiply-add a compiler may emit
FMA(x, y, z) ==
    IF ~(IsFinite(x) /\ IsFinite(y) /\ IsFinite(z)) THEN FAdd(FMul(x, y), z)
    ELSE SumRound(<<Xor(x.sgn, y.sgn), BMul(x.man, y.man), x.exp + y.exp>>, Parts(z))

\* Go's x == y on float64
FEq(x, y) == /\ ~IsNaN(x)
             /\ ~IsNaN(y)
             /\ (x = y \/ (IsZero(x) /\ IsZero(y)))

\* -1, 0 or 1 as |x| < |y|, |x| = |y|, |x| > |y|, for finite x and y
MagCmp(x, y) ==
    IF IsZero(x) THEN (IF IsZero(y) THEN 0 ELSE 0 - 1)
    ELSE IF IsZero(y) THEN 1
    ELSE LET tx == x.exp + BBitLen(x.man)
             ty == y.exp + BBitLen(y.man)
             e  == Min(x.exp, y.exp)
         IN  IF tx < ty THEN 0 - 1
             ELSE IF tx > ty THEN 1
             ELSE BCmp(BShl(x.man, x.exp - e), BShl(y.man, y.exp - e))

IsNeg(x) == x.sgn = 1 /\ ~IsZero(x)

\* Go's x <= y on finite float64
FLeq(x, y) ==
    IF IsNeg(x) /= IsNeg(y) THEN IsNeg(x)
    ELSE IF IsNeg(x) THEN MagCmp(y, x) <= 0
    ELSE MagCmp(x, y) <= 0

\* the float64 a decimal literal n/d denotes (n, d exact, one rounding)
Lit(n, d) == FDiv(FromInt(n), FromInt(d))

\* math.Frexp of a finite nonzero x: <<frac, exp>>, x = frac * 2^exp, 1/2 <= |frac| < 1
Frexp(x) ==
    LET n == BBitLen(x.man)
    IN  <<[cls |-> "num", sgn |-> x.sgn, man |-> x.man, exp |-> 0 - n], x.exp + n>>

\* math.Ldexp(frac, e) of a finite frac
Ldexp(frac, e) == Round(frac.sgn, frac.man, frac.exp + e, FALSE)

\* math.Pow(x, 2): the special cases, then the square of the fraction scaled back
Pow2(x) ==
    IF IsNaN(x) THEN NaN
    ELSE IF IsZero(x) THEN Zero(0)
    ELSE IF IsInf(x) THEN Inf(0)
    ELSE LET fe == Frexp(x)
             x1 == FMul(fe[1], fe[1])
         IN  Ldexp(x1, 2 * fe[2])

Digit(d) == <<"0", "1", "2", "3", "4", "5", "6", "7", "8", "9">>[d + 1]

RECURSIVE Digits(_, _)
Digits(ds, i) == IF i > Len(ds) THEN "" ELSE Digit(ds[i]) \o Digits(ds, i + 1)

\* fmt's %.2f: the exact value rounded to two decimals, ties to even
Fmt2(x) ==
    IF IsNaN(x) THEN "NaN"
    ELSE IF IsInf(x) THEN (IF x.sgn = 1 THEN "-Inf" ELSE "+Inf")
    ELSE LET m100  == BMulSmall(x.man, 100)
             shift == 0 - x.exp
             q     == BShr(m100, shift)
             half  == BBit(m100, shift - 1) = 1
             rest  == ~BLowZero(m100, shift - 1)
             cents == IF x.exp >= 0 THEN BShl(m100, x.exp)
                      ELSE IF half /\ (rest \/ BBit(q, 0) = 1) THEN BAdd(q, <<1>>)
                      ELSE q
             ds    == BToDigits(cents)
             pad   == IF Len(ds) < 3 THEN [i \in 1..(3 - Len(ds)) |-> 0] \o ds ELSE ds
             n     == Len(pad)
         IN  (IF x.sgn = 1 THEN "-" ELSE "")
                 \o Digits(SubSeq(pad, 1, n - 2), 1) \o "." \o Digits(SubSeq(pad, n - 1, n), 1)

(***************************************************************************)
(* The build.  Go lets an implementation fuse x*y + z into one operation   *)
(* rounded once; the only such expression of the package is the sum in     *)
(* WalkingSpentCalories.  fma is what the compiler did with it: "none"     *)
(* (two products, then the sum), "left" (the first product fused with the  *)
(* sum) or "right" (the second product fused with the sum).  The          *)
(* operators that compute that sum take it as their first parameter.       *)
(***************************************************************************)
VARIABLES fma, pc, fn, args, locals, ret

vars == <<fma, pc, fn, args, locals, ret>>

FmaModes == {"none", "left", "right"}

\* x*y + u*v as a build that fuses as `fused` says computes it
MulAddMul(fused, x, y, u, v) ==
    IF fused = "left" THEN FMA(x, y, FMul(u, v))
    ELSE IF fused = "right" THEN FMA(u, v, FMul(x, y))
    ELSE FAdd(FMul(x, y), FMul(u, v))

(***************************************************************************)
(* src/ftracker.go                                                         *)
(***************************************************************************)
lenStep == Lit(65, 100)
mInKm == 1000
minInH == 60
kmhInMsec == Lit(278, 1000)
cmInM == 100

\* Faulty variant of distance: metres are not converted to kilometres.
distanceMeters(action) == FMul(FromInt(action), lenStep)

distance(action) == FDiv(FMul(FromInt(action), lenStep), FromInt(mInKm))

\* Faulty variant of meanSpeed: the zero-duration guard is missing.
meanSpeedUnguarded(action, duration) == FDiv(distance(action), duration)

meanSpeed(action, duration) ==
    IF FEq(duration, Zero(0)) THEN Zero(0)
    ELSE FDiv(distance(action), duration)

runningCaloriesMeanSpeedMultiplier == 18
runningCaloriesMeanSpeedShift == Lit(179, 100)

\* Faulty variant of RunningSpentCalories: hours are not converted to minutes.
RunningSpentCaloriesNoMinutes(action, weight, duration) ==
    FMul(FDiv(FMul(FMul(FMul(FromInt(runningCaloriesMeanSpeedMultiplier),
                             meanSpeed(action, duration)),
                        runningCaloriesMeanSpeedShift),
                   weight),
              FromInt(mInKm)),
         duration)

RunningSpentCalories(action, weight, duration) ==
    FMul(FMul(FDiv(FMul(FMul(FMul(FromInt(runningCaloriesMeanSpeedMultiplier),
                                  meanSpeed(action, duration)),
                             runningCaloriesMeanSpeedShift),
                        weight),
                   FromInt(mInKm)),
              duration),
         FromInt(minInH))

walkingCaloriesWeightMultiplier == Lit(35, 1000)
walkingSpeedHeightMultiplier == Lit(29, 1000)

\* Faulty variant of WalkingSpentCalories: a zero height is answered with 0.
WalkingSpentCaloriesGuarded(fused, action, duration, weight, height) ==
    IF FEq(height, Zero(0)) THEN Zero(0)
    ELSE FMul(FMul(MulAddMul(fused, walkingCaloriesWeightMultiplier, weight,
                        FMul(FDiv(Pow2(FMul(meanSpeed(action, duration), kmhInMsec)),
                                  FDiv(height, FromInt(cmInM))),
                             walkingSpeedHeightMultiplier),
                        weight),
                   duration),
              FromInt(minInH))

WalkingSpentCalories(fused, action, duration, weight, height) ==
    FMul(FMul(MulAddMul(fused, walkingCaloriesWeightMultiplier, weight,
                        FMul(FDiv(Pow2(FMul(meanSpeed(action, duration), kmhInMsec)),
                                  FDiv(height, FromInt(cmInM))),
                             walkingSpeedHeightMultiplier),
                        weight),
              duration),
         FromInt(minInH))

swimmingCaloriesMeanSpeedShift == Lit(11, 10)
swimmingCaloriesWeightMultiplier == 2

swimmingMeanSpeed(lengthPool, countPool, duration) ==
    IF FEq(duration, Zero(0)) THEN Zero(0)
    ELSE FDiv(FDiv(FMul(FromInt(lengthPool), FromInt(countPool)), FromInt(mInKm)),
              duration)

\* Faulty variants of SwimmingSpentCalories: the shift is not added; the
\* duration is not a factor.
SwimmingSpentCaloriesNoShift(lengthPool, countPool, duration, weight) ==
    FMul(FMul(FMul(swimmingMeanSpeed(lengthPool, countPool, duration),
                   FromInt(swimmingCaloriesWeightMultiplier)),
              weight),
         duration)

SwimmingSpentCaloriesNoDuration(lengthPool, countPool, duration, weight) ==
    FMul(FMul(FAdd(swimmingMeanSpeed(lengthPool, countPool, duration),
                   swimmingCaloriesMeanSpeedShift),
              FromInt(swimmingCaloriesWeightMultiplier)),
         weight)

SwimmingSpentCalories(lengthPool, countPool, duration, weight) ==
    FMul(FMul(FMul(FAdd(swimmingMeanSpeed(lengthPool, countPool, duration),
                        swimmingCaloriesMeanSpeedShift),
                   FromInt(swimmingCaloriesWeightMultiplier)),
              weight),
         duration)

\* The training types and the texts of the report are Russian in the source;
\* the model writes them in Latin letters.
Running == "Beg"
Walking == "Hod'ba"
Swimming == "Plavanie"
UnknownType == "neizvestnyj tip trenirovki"

\* fmt.Sprintf of the report's format string
Sprintf(trainingType, duration, dist, speed, calories) ==
    "Tip trenirovki: " \o trainingType
        \o "\nDlitel'nost': " \o Fmt2(duration) \o " ch."
        \o "\nDistanciya: " \o Fmt2(dist) \o " km."
        \o "\nSkorost': " \o Fmt2(speed) \o " km/ch"
        \o "\nSozhgli kalorij: " \o Fmt2(calories) \o "\n"

NoLocals == [branch |-> "default"]

\* Faulty variants of ShowLocals: walking charged with the running formula;
\* the swimming distance taken from the pool.
ShowLocalsWalkingAsRunning(fused, action, trainingType, duration, weight, height, lengthPool, countPool) ==
    IF trainingType = Running \/ trainingType = Walking
    THEN [branch |-> trainingType,
          distance |-> distance(action),
          speed |-> meanSpeed(action, duration),
          calories |-> RunningSpentCalories(action, weight, duration)]
    ELSE IF trainingType = Swimming
    THEN [branch |-> Swimming,
          distance |-> distance(action),
          speed |-> swimmingMeanSpeed(lengthPool, countPool, duration),
          calories |-> SwimmingSpentCalories(lengthPool, countPool, duration, weight)]
    ELSE NoLocals

ShowLocalsPoolDistance(fused, action, trainingType, duration, weight, height, lengthPool, countPool) ==
    IF trainingType = Running
    THEN [branch |-> Running,
          distance |-> distance(action),
          speed |-> meanSpeed(action, duration),
          calories |-> RunningSpentCalories(action, weight, duration)]
    ELSE IF trainingType = Walking
    THEN [branch |-> Walking,
          distance |-> distance(action),
          speed |-> meanSpeed(action, duration),
          calories |-> WalkingSpentCalories(fused, action, duration, weight, height)]
    ELSE IF trainingType = Swimming
    THEN [branch |-> Swimming,
          distance |-> FDiv(FMul(FromInt(lengthPool), FromInt(countPool)), FromInt(mInKm)),
          speed |-> swimmingMeanSpeed(lengthPool, countPool, duration),
          calories |-> SwimmingSpentCalories(lengthPool, countPool, duration, weight)]
    ELSE NoLocals

\* The local variables of the branch ShowTrainingInfo takes
ShowLocals(fused, action, trainingType, duration, weight, height, lengthPool, countPool) ==
    IF trainingType = Running
    THEN [branch |-> Running,
          distance |-> distance(action),
          speed |-> meanSpeed(action, duration),
          calories |-> RunningSpentCalories(action, weight, duration)]
    ELSE IF trainingType = Walking
    THEN [branch |-> Walking,
          distance |-> distance(action),
          speed |-> meanSpeed(action, duration),
          calories |-> WalkingSpentCalories(fused, action, duration, weight, height)]
    ELSE IF trainingType = Swimming
    THEN [branch |-> Swimming,
          distance |-> distance(action),
          speed |-> swimmingMeanSpeed(lengthPool, countPool, duration),
          calories |-> SwimmingSpentCalories(lengthPool, countPool, duration, weight)]
    ELSE NoLocals

\* Faulty variant of ShowReturn: the unknown type is echoed in the answer.
ShowReturnEcho(l, trainingType, duration) ==
    IF l.branch = "default" THEN UnknownType \o ": " \o trainingType
    ELSE Sprintf(trainingType, duration, l.distance, l.speed, l.calories)

\* What ShowTrainingInfo returns from the branch whose locals are l
ShowReturn(l, trainingType, duration) ==
    IF l.branch = "default" THEN UnknownType
    ELSE Sprintf(trainingType, duration, l.distance, l.speed, l.calories)

ShowTrainingInfo(fused, action, trainingType, duration, weight, height, lengthPool, countPool) ==
    ShowReturn(ShowLocals(fused, action, trainingType, duration, weight, height,
                          lengthPool, countPool),
               trainingType, duration)

(***************************************************************************)
(* src/unnamed/part_000: the calorie functions take the speed.             *)
(***************************************************************************)
distance0(action) == FDiv(FMul(FromInt(action), lenStep), FromInt(mInKm))

meanSpeed0(action, duration) ==
    IF FEq(duration, Zero(0)) THEN Zero(0)
    ELSE FDiv(distance0(action), duration)

RunningSpentCalories0(weight, duration, speed) ==
    FMul(FMul(FDiv(FMul(FMul(FMul(FromInt(runningCaloriesMeanSpeedMultiplier), speed),
                             runningCaloriesMeanSpeedShift),
                        weight),
                   FromInt(mInKm)),
              duration),
         FromInt(minInH))

\* Faulty variant of WalkingSpentCalories0: the height is taken in metres.
WalkingSpentCalories0Metres(fused, duration, weight, height, speed) ==
    FMul(FMul(MulAddMul(fused, walkingCaloriesWeightMultiplier, weight,
                        FMul(FDiv(Pow2(FMul(speed, kmhInMsec)), height),
                             Lit(29, 1000)),
                        weight),
              duration),
         FromInt(minInH))

WalkingSpentCalories0(fused, duration, weight, height, speed) ==
    FMul(FMul(MulAddMul(fused, walkingCaloriesWeightMultiplier, weight,
                        FMul(FDiv(Pow2(FMul(speed, kmhInMsec)),
                                  FDiv(height, FromInt(100))),
                             Lit(29, 1000)),
                        weight),
              duration),
         FromInt(minInH))

swimmingMeanSpeed0(lengthPool, countPool, duration) ==
    IF FEq(duration, Zero(0)) THEN Zero(0)
    ELSE FDiv(FDiv(FMul(FromInt(lengthPool), FromInt(countPool)), FromInt(mInKm)),
              duration)

SwimmingSpentCalories0(duration, weight, speed) ==
    FMul(FMul(FMul(FAdd(speed, swimmingCaloriesMeanSpeedShift),
                   FromInt(swimmingCaloriesWeightMultiplier)),
              weight),
         duration)

ShowLocals0(fused, action, trainingType, duration, weight, height, lengthPool, countPool) ==
    IF trainingType = Running
    THEN LET speed == meanSpeed0(action, duration)
         IN  [branch |-> Running,
              distance |-> distance0(action),
              speed |-> speed,
              calories |-> RunningSpentCalories0(weight, duration, speed)]
    ELSE IF trainingType = Walking
    THEN LET speed == meanSpeed0(action, duration)
         IN  [branch |-> Walking,
              distance |-> distance0(action),
              speed |-> speed,
              calories |-> WalkingSpentCalories0(fused, duration, weight, height, speed)]
    ELSE IF trainingType = Swimming
    THEN LET speed == swimmingMeanSpeed0(lengthPool, countPool, duration)
         IN  [branch |-> Swimming,
              distance |-> distance0(action),
              speed |-> speed,
              calories |-> SwimmingSpentCalories0(duration, weight, speed)]
    ELSE NoLocals

ShowTrainingInfo0(fused, action, trainingType, duration, weight, height, lengthPool, countPool) ==
    ShowReturn(ShowLocals0(fused, action, trainingType, duration, weight, height,
                           lengthPool, countPool),
               trainingType, duration)

(***************************************************************************)
(* The callers: each call draws its arguments from the sets below.         *)
(***************************************************************************)
MaxAction == 2
MaxHalfHours == 3

ActionCounts == (0..MaxAction) \cup {1000}
Durations == {FDiv(FromInt(k), FromInt(2)) : k \in 0..MaxHalfHours}
Weights == {FromInt(70), Lit(805, 10)}
\* no height, the smallest positive float64, and a person's height
MinHeight == Canon(0, <<1>>, MinExp)
Heights == {Zero(0), MinHeight, FromInt(170)}
PoolLengths == {0, 25}
PoolCounts == {0, 20}
TrainingTypes == {Running, Walking, Swimming, "Joga", ""}

ShowArgs ==
    [action : ActionCounts, trainingType : TrainingTypes, duration : Durations,
     weight : Weights, height : Heights, lengthPool : PoolLengths,
     countPool : PoolCounts]

Init ==
    /\ fma \in FmaModes
    /\ pc = "idle"
    /\ fn = "none"
    /\ args = <<>>
    /\ locals = NoLocals
    /\ ret = <<>>

Call(f, a, l, r) ==
    /\ pc = "idle"
    /\ pc' = "returned"
    /\ fn' = f
    /\ args' = a
    /\ locals' = l
    /\ ret' = r
    /\ UNCHANGED fma

CallDistance ==
    \E a \in [action : ActionCounts] :
        Call("distance", a, NoLocals, distance(a.action))

CallMeanSpeed ==
    \E a \in [action : ActionCounts, duration : Durations] :
        Call("meanSpeed", a, NoLocals, meanSpeed(a.action, a.duration))

CallSwimmingMeanSpeed ==
    \E a \in [lengthPool : PoolLengths, countPool : PoolCounts, duration : Durations] :
        Call("swimmingMeanSpeed", a, NoLocals,
             swimmingMeanSpeed(a.lengthPool, a.countPool, a.duration))

CallRunningSpentCalories ==
    \E a \in [action : ActionCounts, weight : Weights, duration : Durations] :
        Call("RunningSpentCalories", a, NoLocals,
             RunningSpentCalories(a.action, a.weight, a.duration))

CallWalkingSpentCalories ==
    \E fused \in FmaModes, a \in [action : ActionCounts, duration : Durations,
                                 weight : Weights, height : Heights] :
        fused = fma /\ Call("WalkingSpentCalories", a, NoLocals,
             WalkingSpentCalories(fused, a.action, a.duration, a.weight, a.height))

CallSwimmingSpentCalories ==
    \E a \in [lengthPool : PoolLengths, countPool : PoolCounts, duration : Durations,
              weight : Weights] :
        Call("SwimmingSpentCalories", a, NoLocals,
             SwimmingSpentCalories(a.lengthPool, a.countPool, a.duration, a.weight))

\* the locals of the branch taken, then the string built from them
CallShowTrainingInfo ==
    \E fused \in FmaModes, a \in ShowArgs :
        /\ fused = fma
        /\ Call("ShowTrainingInfo", a,
                ShowLocals(fused, a.action, a.trainingType, a.duration, a.weight,
                           a.height, a.lengthPool, a.countPool),
                ShowReturn(locals', a.trainingType, a.duration))

\* the caller takes the result; the package keeps nothing between calls
Return ==
    /\ pc = "returned"
    /\ pc' = "idle"
    /\ fn' = "none"
    /\ args' = <<>>
    /\ locals' = NoLocals
    /\ ret' = <<>>
    /\ UNCHANGED fma

Next ==
    \/ CallDistance
    \/ CallMeanSpeed
    \/ CallSwimmingMeanSpeed
    \/ CallRunningSpentCalories
    \/ CallWalkingSpentCalories
    \/ CallSwimmingSpentCalories
    \/ CallShowTrainingInfo
    \/ Return

Spec == Init /\ [][Next]_vars

(***************************************************************************)
(* Properties.  A state with pc = "returned" holds one finished call: fn   *)
(* is the function, args its arguments, locals the local variables of      *)
(* ShowTrainingInfo and ret the value returned.                            *)
(***************************************************************************)
Returned(f) == pc = "returned" /\ fn = f

Recognized == {Running, Walking, Swimming}

\* |x - y| <= |z| * 2^(-k), computed exactly, for finite x, y and z
WithinRel(x, y, z, k) ==
    LET r == DAdd(Parts(x), <<1 - y.sgn, y.man, y.exp>>)
    IN  MagCmp([cls |-> "num", sgn |-> 0, man |-> r[2], exp |-> r[3]],
               [cls |-> "num", sgn |-> 0, man |-> z.man, exp |-> z.exp - k]) <= 0

\* C1: for a training type that is none of the three recognized ones,
\* ShowTrainingInfo returns the fixed unknown-type text, whatever the numeric
\* arguments, and computes no distance, speed or calories.
C1_UnknownTypeFallback ==
    (Returned("ShowTrainingInfo") /\ args.trainingType \notin Recognized)
        => (ret = UnknownType /\ locals = NoLocals)

C1_Witness ==
    /\ Returned("ShowTrainingInfo")
    /\ args.trainingType = "Joga"
    /\ args.action = 1000
    /\ args.duration = FromInt(1)
    /\ ret = "neizvestnyj tip trenirovki"

\* C2: for a recognized training type the report is built from the distance,
\* the speed and the calories of that type: meanSpeed and
\* RunningSpentCalories for running, meanSpeed and WalkingSpentCalories for
\* walking, swimmingMeanSpeed and SwimmingSpentCalories for swimming.
C2_Dispatch ==
    (Returned("ShowTrainingInfo") /\ args.trainingType \in Recognized) =>
        /\ locals.branch = args.trainingType
        /\ locals.distance = distance(args.action)
        /\ locals.speed =
             IF args.trainingType = Swimming
             THEN swimmingMeanSpeed(args.lengthPool, args.countPool, args.duration)
             ELSE meanSpeed(args.action, args.duration)
        /\ locals.calories =
             IF args.trainingType = Running
             THEN RunningSpentCalories(args.action, args.weight, args.duration)
             ELSE IF args.trainingType = Walking
             THEN WalkingSpentCalories(fma, args.action, args.duration, args.weight,
                                       args.height)
             ELSE SwimmingSpentCalories(args.lengthPool, args.countPool, args.duration,
                                        args.weight)
        /\ ret = Sprintf(args.trainingType, args.duration, locals.distance,
                         locals.speed, locals.calories)

C2_Witness ==
    /\ Returned("ShowTrainingInfo")
    /\ args.trainingType = Walking
    /\ args.action = 1000
    /\ args.duration = FromInt(1)
    /\ args.weight = FromInt(70)
    /\ args.height = FromInt(170)
    /\ ret = "Tip trenirovki: Hod'ba\nDlitel'nost': 1.00 ch.\nDistanciya: 0.65 km."
                 \o "\nSkorost': 0.65 km/ch\nSozhgli kalorij: 149.34\n"

\* C3: in the swimming report the distance is the step-based
\* distance(action), the same for every pool length and lap count, while the
\* speed and the calories come from the pool and are the same for every
\* action count.
C3_SwimmingDistanceFromSteps ==
    (Returned("ShowTrainingInfo") /\ args.trainingType = Swimming) =>
        /\ locals.distance = distance(args.action)
        /\ \A l \in PoolLengths, c \in PoolCounts :
             ShowLocals(fma, args.action, Swimming, args.duration, args.weight,
                        args.height, l, c).distance = locals.distance
        /\ \A a \in ActionCounts :
             /\ ShowLocals(fma, a, Swimming, args.duration, args.weight, args.height,
                           args.lengthPool, args.countPool).speed = locals.speed
             /\ ShowLocals(fma, a, Swimming, args.duration, args.weight, args.height,
                           args.lengthPool, args.countPool).calories = locals.calories

C3_Witness ==
    /\ Returned("ShowTrainingInfo")
    /\ args.trainingType = Swimming
    /\ args.action = 1000
    /\ args.lengthPool = 25
    /\ args.countPool = 20
    /\ args.duration = FromInt(1)
    /\ args.weight = FromInt(70)
    /\ locals.distance = Lit(65, 100)
    /\ locals.distance /= FDiv(FMul(FromInt(25), FromInt(20)), FromInt(1000))
    /\ locals.speed = Lit(1, 2)
    /\ locals.calories = FromInt(224)

\* C4: with duration 0 meanSpeed and swimmingMeanSpeed return 0 and divide
\* nothing by zero; with any other duration meanSpeed returns
\* distance(action) / duration and swimmingMeanSpeed returns
\* lengthPool * countPool / 1000 / duration.
C4_ZeroDurationGuards ==
    /\ Returned("meanSpeed") =>
         IF FEq(args.duration, Zero(0)) THEN ret = Zero(0)
         ELSE ret = FDiv(distance(args.action), args.duration)
    /\ Returned("swimmingMeanSpeed") =>
         IF FEq(args.duration, Zero(0)) THEN ret = Zero(0)
         ELSE ret = FDiv(FDiv(FMul(FromInt(args.lengthPool), FromInt(args.countPool)),
                              FromInt(1000)),
                         args.duration)

C4_Witness ==
    /\ Returned("meanSpeed")
    /\ args.action = 1000
    /\ args.duration = Zero(0)
    /\ ret = Zero(0)

\* C5 (as stated): RunningSpentCalories returns
\* 18 * meanSpeed * 1.79 * weight / 1000 * duration * 60, and for 1000 steps,
\* 70 kg and 1 hour that value is about 88.07.
C5_AsStated ==
    Returned("RunningSpentCalories") =>
        /\ ret = FMul(FMul(FDiv(FMul(FMul(FMul(FromInt(18),
                                              meanSpeed(args.action, args.duration)),
                                         Lit(179, 100)),
                                    args.weight),
                               FromInt(1000)),
                          args.duration),
                     FromInt(60))
        /\ (args.action = 1000 /\ args.weight = FromInt(70) /\ args.duration = FromInt(1))
             => Fmt2(ret) = "88.07"

\* C5: RunningSpentCalories returns
\* 18 * meanSpeed * 1.79 * weight / 1000 * duration * 60, each operation
\* rounded to float64 from left to right, and for 1000 steps, 70 kg and
\* 1 hour that value is about 87.96.
C5_RunningFormula ==
    Returned("RunningSpentCalories") =>
        /\ ret = FMul(FMul(FDiv(FMul(FMul(FMul(FromInt(18),
                                              meanSpeed(args.action, args.duration)),
                                         Lit(179, 100)),
                                    args.weight),
                               FromInt(1000)),
                          args.duration),
                     FromInt(60))
        /\ (args.action = 1000 /\ args.weight = FromInt(70) /\ args.duration = FromInt(1))
             => (/\ Fmt2(ret) = "87.96"
                 /\ WithinRel(ret, Lit(879606, 10000), ret, 50))

C5_Witness ==
    /\ Returned("RunningSpentCalories")
    /\ args.action = 1000
    /\ args.weight = FromInt(70)
    /\ args.duration = FromInt(1)
    /\ Fmt2(ret) = "87.96"

\* C6: SwimmingSpentCalories returns
\* (swimmingMeanSpeed + 1.1) * 2 * weight * duration, and for a 25 m pool,
\* 20 laps, 1 hour and 70 kg the speed is 0.5 and the result is 224.
C6_SwimmingFormula ==
    Returned("SwimmingSpentCalories") =>
        /\ ret = FMul(FMul(FMul(FAdd(swimmingMeanSpeed(args.lengthPool, args.countPool,
                                                       args.duration),
                                     Lit(11, 10)),
                                FromInt(2)),
                           args.weight),
                      args.duration)
        /\ (/\ args.lengthPool = 25
            /\ args.countPool = 20
            /\ args.duration = FromInt(1)
            /\ args.weight = FromInt(70))
             => (/\ swimmingMeanSpeed(args.lengthPool, args.countPool, args.duration)
                      = Lit(1, 2)
                 /\ ret = FromInt(224))

C6_Witness ==
    /\ Returned("SwimmingSpentCalories")
    /\ args.lengthPool = 25
    /\ args.countPool = 20
    /\ args.duration = FromInt(1)
    /\ args.weight = FromInt(70)
    /\ ret = FromInt(224)

\* C7 (as stated): distance(0) is 0, distance(action) is action * 0.65 / 1000,
\* distance(1000) is 0.65, and distance(a + b) equals
\* distance(a) + distance(b).
C7_AsStated ==
    Returned("distance") =>
        /\ (args.action = 0 => ret = Zero(0))
        /\ ret = FDiv(FMul(FromInt(args.action), Lit(65, 100)), FromInt(1000))
        /\ (args.action = 1000 => ret = Lit(65, 100))
        /\ \A b \in ActionCounts :
             FEq(distance(args.action + b), FAdd(ret, distance(b)))

\* C7: distance(0) is 0, distance(action) is float64(action) * 0.65 / 1000
\* with both operations rounded to float64, distance(1000) is 0.65, distance
\* does not decrease when the count grows, and distance(a + b) differs from
\* distance(a) + distance(b) by at most 2^-50 of distance(a + b).
C7_DistanceLinear ==
    Returned("distance") =>
        /\ (args.action = 0 => ret = Zero(0))
        /\ ret = FDiv(FMul(FromInt(args.action), Lit(65, 100)), FromInt(1000))
        /\ (args.action = 1000 => ret = Lit(65, 100))
        /\ \A b \in ActionCounts :
             /\ b <= args.action => FLeq(distance(b), ret)
             /\ WithinRel(distance(args.action + b), FAdd(ret, distance(b)),
                          distance(args.action + b), 50)

C7_Witness ==
    /\ Returned("distance")
    /\ args.action = 1
    /\ ~FEq(distance(3), FAdd(ret, distance(2)))
    /\ WithinRel(distance(3), FAdd(ret, distance(2)), distance(3), 50)

\* C8: with height 0 WalkingSpentCalories divides by zero without failing
\* and returns an infinity or NaN, and ShowTrainingInfo for walking still
\* returns the formatted report, with that value printed as the calories,
\* not the unknown-type text.
C8_ZeroHeight ==
    /\ (Returned("WalkingSpentCalories") /\ IsZero(args.height))
         => (IsInf(ret) \/ IsNaN(ret))
    /\ (Returned("ShowTrainingInfo") /\ args.trainingType = Walking
            /\ IsZero(args.height))
         => (/\ IsInf(locals.calories) \/ IsNaN(locals.calories)
             /\ ret /= UnknownType
             /\ ret = Sprintf(Walking, args.duration, locals.distance, locals.speed,
                              locals.calories)
             /\ Fmt2(locals.calories) \in {"+Inf", "-Inf", "NaN"})

C8_Witness ==
    /\ Returned("ShowTrainingInfo")
    /\ args.trainingType = Walking
    /\ args.height = Zero(0)
    /\ args.action = 1000
    /\ args.duration = FromInt(1)
    /\ locals.calories = Inf(0)
    /\ ret = "Tip trenirovki: Hod'ba\nDlitel'nost': 1.00 ch.\nDistanciya: 0.65 km."
                 \o "\nSkorost': 0.65 km/ch\nSozhgli kalorij: +Inf\n"

\* C9: for every training type and every input the ShowTrainingInfo of
\* src/unnamed/part_000, whose calorie functions take the speed, computes the
\* same distance, speed and calories and returns the same string as the
\* ShowTrainingInfo of src/ftracker.go, whose calorie functions recompute
\* the speed.
C9_VersionsAgree ==
    Returned("ShowTrainingInfo") =>
        /\ locals = ShowLocals0(fma, args.action, args.trainingType, args.duration,
                                args.weight, args.height, args.lengthPool,
                                args.countPool)
        /\ ret = ShowTrainingInfo0(fma, args.action, args.trainingType, args.duration,
                                   args.weight, args.height, args.lengthPool,
                                   args.countPool)

C9_Witness ==
    /\ Returned("ShowTrainingInfo")
    /\ args.trainingType = Walking
    /\ args.action = 1000
    /\ args.duration = Lit(3, 2)
    /\ args.height = FromInt(170)
    /\ IsFinite(locals.calories)
    /\ ~IsZero(locals.calories)
    /\ ret = ShowTrainingInfo0(fma, args.action, args.trainingType, args.duration,
                               args.weight, args.height, args.lengthPool,
                               args.countPool)

====
